---- MODULE Spec2Model ----
(***************************************************************************)
(* Model of starcli/layouts.py: the count abbreviation (shorten_count),    *)
(* the stats formatting, the four layout renderers and the dispatcher      *)
(* (print_layout / print_results with the optional pager).                 *)
(*                                                                         *)
(* Strings are sequences of one-character strings, so that str(), repr(),  *)
(* int() and float() are modelled by what they do on the characters.  The  *)
(* glyphs of SYMBOL_MAP are the tokens "STAR" and "FORK"; a bar is the     *)
(* number of GRAPH_BLOCKS glyphs it holds.  IEEE-754 doubles are modelled  *)
(* exactly where the code's result depends on them (round(n / 100.0, 1)    *)
(* on a decimal tie, float(s) * 1000).                                     *)
(***************************************************************************)
EXTENDS Integers, Sequences, FiniteSets, TLC

\* ------------------------------------------------------------------ bounds
\* Largest number handed to shorten_count.
MaxNumber == 33000
\* Largest number of records in one render call.
MaxRepos == 2

\* ------------------------------------------------------- string primitives
Digits == <<"0", "1", "2", "3", "4", "5", "6", "7", "8", "9">>

DigitChars == {Digits[i] : i \in 1..10}

\* value of a digit character
DigitVal(c) == (CHOOSE i \in 1..10 : Digits[i] = c) - 1

RECURSIVE NatStr(_)
\* str(n) for a non-negative int: its decimal digits, most significant first
NatStr(n) == IF n < 10 THEN <<Digits[n + 1]>>
             ELSE NatStr(n \div 10) \o <<Digits[(n % 10) + 1]>>

\* str(n) for an int
str(n) == IF n < 0 THEN <<"-">> \o NatStr(0 - n) ELSE NatStr(n)

RECURSIVE NatVal(_)
\* value of a non-empty sequence of digit characters
NatVal(s) == IF Len(s) = 0 THEN 0
             ELSE 10 * NatVal(SubSeq(s, 1, Len(s) - 1)) + DigitVal(s[Len(s)])

AllDigits(s) == \A i \in 1..Len(s) : s[i] \in DigitChars

\* str.lower() on the characters the model uses
LowerChar(c) == IF c = "K" THEN "k" ELSE c

lower(s) == [i \in 1..Len(s) |-> LowerChar(s[i])]

\* s.replace(c, '')
replace_with_empty(s, c) == SelectSeq(s, LAMBDA x : x # c)

\* c in s
Contains(s, c) == \E i \in 1..Len(s) : s[i] = c

\* position of the first "." of s, 0 when there is none
DotPos(s) == IF Contains(s, ".") THEN CHOOSE i \in 1..Len(s) :
                                        s[i] = "." /\ \A j \in 1..(i - 1) : s[j] # "."
             ELSE 0

\* ------------------------------------------------------- double arithmetic
RECURSIVE Pow2Mod(_, _)
\* 2^e mod m
Pow2Mod(e, m) == IF e = 0 THEN 1 % m ELSE (2 * Pow2Mod(e - 1, m)) % m

RECURSIVE Pow2(_)
Pow2(e) == IF e = 0 THEN 1 ELSE 2 * Pow2(e - 1)

RECURSIVE FloorLog2(_, _)
\* floor(log2(a / b)) for a, b > 0
FloorLog2(a, b) == IF a < b THEN FloorLog2(2 * a, b) - 1
                   ELSE IF 2 * b <= a THEN FloorLog2(a, 2 * b) + 1
                   ELSE 0

\* The double nearest to a / b has the 53-bit significand
\* round(a * 2^e / b) with e = 52 - floor(log2(a / b)).
SigExp(a, b) == 52 - FloorLog2(a, b)

\* (a * 2^e) mod b for e = SigExp(a, b): the remainder that decides which way
\* a / b is rounded to a double (below half of b: down, above: up)
SigRem(a, b) == ((a % b) * Pow2Mod(SigExp(a, b), b)) % b

\* TRUE iff the double number / 100.0 is greater than the rational number/100
QuotientAbove(number) == 2 * SigRem(number, 100) > 100

\* round(number / 100.0, 1), in tenths.  Python rounds the exact value of the
\* double, so a decimal tie (number ends in 5) goes the way the division's
\* rounding error points.
round_1(number) ==
    LET q == number \div 10
        d == number % 10
    IN  IF d < 5 THEN q
        ELSE IF d > 5 THEN q + 1
        ELSE IF QuotientAbove(number) THEN q + 1 ELSE q

\* variant: round to the nearest integer instead of math.ceil
ceil_nearest(tenths) == (tenths + 5) \div 10

\* math.ceil of a value given in tenths
ceil(tenths) == (tenths + 9) \div 10

\* int(float(s) * 1000) for the non-negative decimal t / 10 (s has at most
\* one fractional digit).  float(s) is the double nearest to t / 10; when it
\* lies below t / 10 by more than half an ulp of the product, the product is
\* the double just below t * 100 and int() truncates it to t * 100 - 1.
times_1000_int(t) ==
    IF t % 10 = 0 THEN (t \div 10) * 1000
    ELSE LET rho == SigRem(t, 10)
             gap == FloorLog2(t * 100, 1) - FloorLog2(t, 10)
         IN  IF 2 * rho < 10 /\ 200 * rho > Pow2(gap) THEN t * 100 - 1
             ELSE t * 100

\* repr(new_number / 1000.0) for a multiple of 100: the shortest decimal that
\* reads back as the same double, i.e. one fractional digit
float_repr_1000(new_number) ==
    NatStr(new_number \div 1000) \o <<".">> \o <<Digits[((new_number \div 100) % 10) + 1]>>

\* ------------------------------------------------------------ shorten_count
\* math.ceil(round(number / 100.0, 1)) * 100
new_number_of(number) == ceil(round_1(number)) * 100

shorten_count(number) ==
    IF number < 1000 THEN str(number)
    ELSE LET new_number == new_number_of(number)
         IN  IF new_number % 1000 = 0 THEN <<str(new_number)[1]>> \o <<"k">>
             ELSE IF new_number < 1000 THEN str(number)
             ELSE float_repr_1000(new_number) \o <<"k">>

\* -------------------------------------------------------------- parse_count
\* int(s) accepts: an optional sign, then one or more digits
IsIntLiteral(s) ==
    LET body == IF Len(s) > 0 /\ s[1] \in {"-", "+"} THEN Tail(s) ELSE s
    IN  Len(body) > 0 /\ AllDigits(body)

int_of(s) ==
    IF s[1] = "-" THEN 0 - NatVal(Tail(s))
    ELSE IF s[1] = "+" THEN NatVal(Tail(s))
    ELSE NatVal(s)

\* float(s) accepts: an optional sign, then digits with at most one "." and
\* at least one digit
IsFloatLiteral(s) ==
    LET body   == IF Len(s) > 0 /\ s[1] \in {"-", "+"} THEN Tail(s) ELSE s
        nodots == replace_with_empty(body, ".")
    IN  /\ Len(nodots) > 0
        /\ AllDigits(nodots)
        /\ Len(body) - Len(nodots) <= 1

\* 10 * float(s) for an unsigned literal with at most one fractional digit
tenths_of(body) ==
    LET p == DotPos(body)
    IN  IF p = 0 THEN 10 * NatVal(body)
        ELSE 10 * NatVal(SubSeq(body, 1, p - 1)) + NatVal(SubSeq(body, p + 1, Len(body)))

\* int(float(s) * 1000); int() truncates towards zero
k_value(s) ==
    IF s[1] = "-" THEN 0 - times_1000_int(tenths_of(Tail(s)))
    ELSE IF s[1] = "+" THEN times_1000_int(tenths_of(Tail(s)))
    ELSE times_1000_int(tenths_of(s))

\* TRUE iff parse_count(count_str) raises ValueError
parse_count_raises(count_str) ==
    IF count_str = <<"-", "1">> THEN FALSE
    ELSE IF Contains(lower(count_str), "k")
         THEN ~IsFloatLiteral(replace_with_empty(lower(count_str), "k"))
         ELSE ~IsIntLiteral(count_str)

\* the value parse_count(count_str) returns when it does not raise
parse_count(count_str) ==
    IF count_str = <<"-", "1">> THEN 0
    ELSE IF Contains(lower(count_str), "k")
         THEN k_value(replace_with_empty(lower(count_str), "k"))
         ELSE int_of(count_str)

\* ------------------------------------------------------------------- state
VARIABLES
    number,     \* shorten_count: the argument
    shortened,  \* shorten_count: the returned string
    parsed,     \* parse_count applied to the returned string
    npc,        \* position of the abbreviation round trip
    pc,         \* position of the print_results call
    repos,      \* print_results: the records (*args)
    page,       \* print_results: the page keyword
    layout,     \* print_results: the layout keyword
    renderer,   \* the renderer print_layout selected
    idx,        \* list_layout: index of the next record of the for loop
    out,        \* what console.print has emitted, in order
    prints,     \* number of console.print calls made
    pager,      \* the console.pager() context: "none", "open" or "closed"
    acquired,   \* number of times the pager context was entered
    released,   \* number of times the pager context was exited
    error       \* the exception leaving the call, "none" when there is none

numvars == <<number, shortened, parsed, npc>>

rendervars == <<pc, repos, page, layout, renderer, idx, out, prints, pager,
                acquired, released, error>>

vars == <<numvars, rendervars>>

\* -------------------------------------------------------------- input sets
MinusOne == <<"-", "1">>

\* stargazers_count values: the sentinel, integer literals and an abbreviated
\* count
StarStrs == {MinusOne, <<"0">>, <<"1", "0">>, <<"1", ".", "2", "k">>}

\* forks values: the sentinel, an integer literal, a string no conversion
\* accepts, and a string that is no literal of the data model but that
\* parse_count converts ("1k2" -> "12" -> 12000)
ForkStrs == {MinusOne, <<"2", "0">>, <<"a", "b">>, <<"1", "k", "2">>}

\* a record with every optional field present
FullRepo(stars, forks) ==
    [name |-> <<"alpha">>, full_name |-> <<"o/alpha">>, html_url |-> <<"u/alpha">>,
     language |-> <<"Python">>, description |-> <<" ", "d", "e", "s", "c", " ">>,
     stargazers_count |-> stars, forks |-> forks,
     date_range |-> <<"12", " stars", " this week">>]

\* a record whose optional fields are absent (None or "", both falsy)
BareRepo(stars, forks) ==
    [name |-> <<"beta">>, full_name |-> <<"o/beta">>, html_url |-> <<"u/beta">>,
     language |-> <<>>, description |-> <<>>,
     stargazers_count |-> stars, forks |-> forks,
     date_range |-> <<>>]

RepoPool == {FullRepo(s, f) : s \in StarStrs, f \in ForkStrs}
            \cup {BareRepo(<<"1", "0">>, MinusOne), BareRepo(<<"a", "b">>, <<"0">>)}

RepoSeqs == UNION {[1..n -> RepoPool] : n \in 0..MaxRepos}

LayoutNames == {"table", "grid", "graph", "list", "", "Graph"}

\* ------------------------------------------------------- program constants
max_bar_width == 40

max_desc_len == 90

\* ---------------------------------------------------------- StatsFormatter
format_stats(stars, forks) ==
    (IF stars # MinusOne THEN stars \o <<"STAR", " ">> ELSE <<>>)
    \o (IF forks # MinusOne THEN forks \o <<"FORK", " ">> ELSE <<>>)

format_date_range(date_range) ==
    IF date_range = <<>> THEN <<>>
    ELSE <<"(">>
         \o [i \in 1..Len(date_range) |->
               IF date_range[i] = " stars" THEN "STAR" ELSE date_range[i]]
         \o <<")">>

\* ------------------------------------------------------------ text helpers
RECURSIVE lstrip(_)
lstrip(s) == IF Len(s) > 0 /\ s[1] = " " THEN lstrip(Tail(s)) ELSE s

RECURSIVE rstrip(_)
rstrip(s) == IF Len(s) > 0 /\ s[Len(s)] = " " THEN rstrip(SubSeq(s, 1, Len(s) - 1)) ELSE s

\* str.strip()
strip(s) == rstrip(lstrip(s))

\* Text.truncate(max_width, overflow="ellipsis")
truncate(text, max_width) ==
    IF Len(text) > max_width THEN SubSeq(text, 1, max_width - 1) \o <<"...">>
    ELSE text

\* one emitted piece: its kind, the (1-based) record it belongs to (0 for the
\* frame), its characters, and the number of GRAPH_BLOCKS glyphs of a bar
Part(kind, rec, text, blocks) ==
    [part |-> kind, rec |-> rec, text |-> text, blocks |-> blocks]

RECURSIVE Flatten(_)
\* the rows of one for loop, one after the other
Flatten(rows) == IF Len(rows) = 0 THEN <<>> ELSE Head(rows) \o Flatten(Tail(rows))

language_or(repo, fallback) ==
    IF repo.language # <<>> THEN repo.language ELSE fallback

description_or(repo, fallback) ==
    IF repo.description # <<>> THEN repo.description ELSE fallback

\* ------------------------------------------------------------- list_layout
\* the renderables render_repo yields for record i, in yield order
render_repo(repo, i) ==
    << Part("rule", i, <<>>, 0),
       Part("blank", i, <<>>, 0),
       Part("title", i, repo.full_name, 0),
       Part("stats", i, format_stats(repo.stargazers_count, repo.forks), 0),
       Part("blank", i, <<>>, 0),
       Part("language", i, language_or(repo, <<"no language">>), 0),
       Part("date_range", i, format_date_range(repo.date_range), 0),
       Part("blank", i, <<>>, 0),
       Part("description", i,
            IF repo.description # <<>> THEN strip(repo.description)
            ELSE <<"no description">>, 0),
       Part("blank", i, <<>>, 0) >>

\* ------------------------------------------------------------ table_layout
table_columns == Part("header", 0, <<"Name", "Language", "Description", "Stats">>, 0)

\* variant: the stats cell is added as the second column
table_row_stats_second(repo, i) ==
    << Part("name", i, repo.name, 0),
       Part("stats", i, format_stats(repo.stargazers_count, repo.forks), 0),
       Part("date_range", i, <<"\n">> \o format_date_range(repo.date_range), 0),
       Part("language", i, language_or(repo, <<"no language">>), 0),
       Part("description", i, description_or(repo, <<"no description">>), 0) >>

\* table.add_row(name, language, description, stats); the stats cell holds
\* the stats, a newline and the date range
table_row(repo, i) ==
    << Part("name", i, repo.name, 0),
       Part("language", i, language_or(repo, <<"no language">>), 0),
       Part("description", i, description_or(repo, <<"no description">>), 0),
       Part("stats", i, format_stats(repo.stargazers_count, repo.forks), 0),
       Part("date_range", i, <<"\n">> \o format_date_range(repo.date_range), 0) >>

\* ------------------------------------------------------------- grid_layout
\* Text.assemble(name, "\n", stats, " ", date_range, language, "\n", description)
grid_panel(repo, i) ==
    << Part("name", i, repo.name, 0),
       Part("sep", i, <<"\n">>, 0),
       Part("stats", i, format_stats(repo.stargazers_count, repo.forks), 0),
       Part("sep", i, <<" ">>, 0),
       Part("date_range", i, format_date_range(repo.date_range) \o <<"\n">>, 0),
       Part("language", i, language_or(repo, <<"no language">>), 0),
       Part("sep", i, <<"\n">>, 0),
       Part("description", i,
            truncate(description_or(repo, <<"no description">>), max_desc_len), 0) >>

\* ------------------------------------------------------------ graph_layout
SetMax(S) == CHOOSE m \in S : \A x \in S : x <= m

\* TRUE iff some parse_count call of graph_layout raises
graph_parse_raises(rs) ==
    \E i \in 1..Len(rs) : \/ parse_count_raises(rs[i].stargazers_count)
                          \/ parse_count_raises(rs[i].forks)

max_stars_of(rs) == SetMax({parse_count(rs[i].stargazers_count) : i \in 1..Len(rs)})

max_forks_of(rs) == SetMax({parse_count(rs[i].forks) : i \in 1..Len(rs)})

\* int(x) of the quotient a / b, b > 0: truncation towards zero
TruncDiv(a, b) == IF a >= 0 THEN a \div b ELSE 0 - ((0 - a) \div b)

\* variant: a bar is never narrower than one block
bar_width_min1(count, max_count) ==
    IF max_count > 0
    THEN (IF TruncDiv(count * max_bar_width, max_count) < 1 THEN 1
          ELSE TruncDiv(count * max_bar_width, max_count))
    ELSE 0

\* int((count / max_count) * max_bar_width) if max_count > 0 else 0.  The
\* double product never crosses an integer for counts of this size, so the
\* result is the truncated exact quotient.
bar_width(count, max_count) ==
    IF max_count > 0 THEN TruncDiv(count * max_bar_width, max_count) ELSE 0

\* the scale graph_layout divides a record's star count by
stars_scale(rs) == max_stars_of(rs)

\* the scale graph_layout divides a record's fork count by: max_stars
forks_scale(rs) == max_stars_of(rs)

stars_bar_width(rs, i) == bar_width(parse_count(rs[i].stargazers_count), stars_scale(rs))

forks_bar_width(rs, i) == bar_width(parse_count(rs[i].forks), forks_scale(rs))

\* table.add_row(name, stats_text, bars)
graph_row(rs, i) ==
    LET repo == rs[i]
        date_range_col == format_date_range(repo.date_range)
    IN  << Part("name", i, repo.name, 0),
           Part("stats", i, format_stats(repo.stargazers_count, repo.forks), 0) >>
        \o (IF date_range_col # <<>>
            THEN << Part("sep", i, <<"\n">>, 0), Part("date_range", i, date_range_col, 0) >>
            ELSE <<>>)
        \o << Part("star_bar", i, <<" ">> \o repo.stargazers_count \o <<"\n">>,
                   stars_bar_width(rs, i)),
              Part("fork_bar", i, <<" ">> \o repo.forks, forks_bar_width(rs, i)) >>

\* ------------------------------------------------------------- print_layout
\* variant: "list" is matched like the others and the else branch is the table
select_layout_else_table(name) ==
    IF name = "list" THEN "list"
    ELSE IF name = "grid" THEN "grid"
    ELSE IF name = "graph" THEN "graph"
    ELSE "table"

\* the if / elif chain of print_layout
select_layout(name) ==
    IF name = "table" THEN "table"
    ELSE IF name = "grid" THEN "grid"
    ELSE IF name = "graph" THEN "graph"
    ELSE "list"

\* variant: a handler swallows the exception and the function returns
caught(exc) == [pc |-> "rendered", error |-> "none"]

\* an exception no handler catches leaves the function: the call is aborted
\* and the exception is what the caller gets
uncaught(exc) == [pc |-> "raised", error |-> exc]

\* ----------------------------------------------------- the render call
IdleRender ==
    /\ pc = "idle"
    /\ repos = <<>>
    /\ page = FALSE
    /\ layout = ""
    /\ renderer = "none"
    /\ idx = 0
    /\ out = <<>>
    /\ prints = 0
    /\ pager = "none"
    /\ acquired = 0
    /\ released = 0
    /\ error = "none"

IdleNum ==
    /\ number = 0
    /\ shortened = <<>>
    /\ parsed = 0
    /\ npc = "idle"

Init == IdleNum /\ IdleRender

\* a caller invokes print_results(repos, page=p, layout=l)
print_results ==
    /\ pc = "idle"
    /\ \E rs \in RepoSeqs, p \in BOOLEAN, l \in LayoutNames :
          /\ repos' = rs
          /\ page' = p
          /\ layout' = l
    /\ pc' = "called"
    /\ UNCHANGED <<renderer, idx, out, prints, pager, acquired, released, error>>
    /\ UNCHANGED numvars

\* if page: with console.pager(): -- the context is entered
pager_enter ==
    /\ pc = "called"
    /\ page
    /\ pager' = "open"
    /\ acquired' = acquired + 1
    /\ pc' = "dispatch"
    /\ UNCHANGED <<repos, page, layout, renderer, idx, out, prints, released, error>>
    /\ UNCHANGED numvars

\* print_layout(layout=layout, *args): reached inside the with block, or
\* directly when page is false
print_layout ==
    /\ \/ pc = "dispatch"
       \/ pc = "called" /\ ~page
    /\ renderer' = select_layout(layout)
    /\ idx' = 1
    /\ pc' = "render"
    /\ UNCHANGED <<repos, page, layout, out, prints, pager, acquired, released, error>>
    /\ UNCHANGED numvars

\* one iteration of list_layout's for loop: console.print(column(render_repo(repo)))
list_print_repo ==
    /\ pc = "render"
    /\ renderer = "list"
    /\ idx <= Len(repos)
    /\ out' = out \o render_repo(repos[idx], idx)
    /\ prints' = prints + 1
    /\ idx' = idx + 1
    /\ UNCHANGED <<pc, repos, page, layout, renderer, pager, acquired, released, error>>
    /\ UNCHANGED numvars

\* after the loop: console.print(column(Rule(...))), and list_layout returns
list_print_rule ==
    /\ pc = "render"
    /\ renderer = "list"
    /\ idx > Len(repos)
    /\ out' = Append(out, Part("rule", 0, <<>>, 0))
    /\ prints' = prints + 1
    /\ pc' = "rendered"
    /\ UNCHANGED <<repos, page, layout, renderer, idx, pager, acquired, released, error>>
    /\ UNCHANGED numvars

\* table_layout builds the table row by row and prints it once
table_layout ==
    /\ pc = "render"
    /\ renderer = "table"
    /\ out' = out \o <<table_columns>>
                  \o Flatten([i \in 1..Len(repos) |-> table_row(repos[i], i)])
    /\ prints' = prints + 1
    /\ pc' = "rendered"
    /\ UNCHANGED <<repos, page, layout, renderer, idx, pager, acquired, released, error>>
    /\ UNCHANGED numvars

\* grid_layout collects one panel per record and prints the columns once
grid_layout ==
    /\ pc = "render"
    /\ renderer = "grid"
    /\ out' = out \o Flatten([i \in 1..Len(repos) |-> grid_panel(repos[i], i)])
    /\ prints' = prints + 1
    /\ pc' = "rendered"
    /\ UNCHANGED <<repos, page, layout, renderer, idx, pager, acquired, released, error>>
    /\ UNCHANGED numvars

\* graph_layout: max() over the parsed counts (ValueError on no record, or
\* from int() / float() on a count they reject), then one row per record,
\* printed once
graph_layout ==
    /\ pc = "render"
    /\ renderer = "graph"
    /\ IF Len(repos) = 0 \/ graph_parse_raises(repos)
       THEN /\ pc' = uncaught("ValueError").pc
            /\ error' = uncaught("ValueError").error
            /\ UNCHANGED <<out, prints>>
       ELSE /\ out' = out \o Flatten([i \in 1..Len(repos) |-> graph_row(repos, i)])
            /\ prints' = prints + 1
            /\ pc' = "rendered"
            /\ UNCHANGED error
    /\ UNCHANGED <<repos, page, layout, renderer, idx, pager, acquired, released>>
    /\ UNCHANGED numvars

\* variant: the pager is closed after the call instead of by a with block, so
\* an exception skips the release
pager_exit_on_success ==
    /\ pc \in {"rendered", "raised"}
    /\ page
    /\ pager' = (IF pc = "rendered" THEN "closed" ELSE pager)
    /\ released' = (IF pc = "rendered" THEN released + 1 ELSE released)
    /\ pc' = "done"
    /\ UNCHANGED <<repos, page, layout, renderer, idx, out, prints, acquired, error>>
    /\ UNCHANGED numvars

\* the with block is left, normally or by an exception: the context exits
pager_exit ==
    /\ pc \in {"rendered", "raised"}
    /\ page
    /\ pager' = "closed"
    /\ released' = released + 1
    /\ pc' = "done"
    /\ UNCHANGED <<repos, page, layout, renderer, idx, out, prints, acquired, error>>
    /\ UNCHANGED numvars

\* print_results returns (or the exception leaves it) without a pager
return_direct ==
    /\ pc \in {"rendered", "raised"}
    /\ ~page
    /\ pc' = "done"
    /\ UNCHANGED <<repos, page, layout, renderer, idx, out, prints, pager,
                   acquired, released, error>>
    /\ UNCHANGED numvars

\* the caller is done with the call; the engine keeps nothing of it
next_call ==
    /\ pc = "done"
    /\ pc' = "idle"
    /\ repos' = <<>>
    /\ page' = FALSE
    /\ layout' = ""
    /\ renderer' = "none"
    /\ idx' = 0
    /\ out' = <<>>
    /\ prints' = 0
    /\ pager' = "none"
    /\ acquired' = 0
    /\ released' = 0
    /\ error' = "none"
    /\ UNCHANGED numvars

Next ==
    \/ print_results
    \/ pager_enter
    \/ print_layout
    \/ list_print_repo
    \/ list_print_rule
    \/ table_layout
    \/ grid_layout
    \/ graph_layout
    \/ pager_exit
    \/ return_direct
    \/ next_call

Spec == Init /\ [][Next]_vars

\* ------------------------------------------- the abbreviation round trip
InitNum ==
    /\ number \in 0..MaxNumber
    /\ shortened = <<>>
    /\ parsed = 0
    /\ npc = "start"
    /\ IdleRender

\* shortened = shorten_count(number)
call_shorten_count ==
    /\ npc = "start"
    /\ shortened' = shorten_count(number)
    /\ npc' = "shortened"
    /\ UNCHANGED <<number, parsed>>
    /\ UNCHANGED rendervars

\* parsed = parse_count(shortened), graph_layout's parser on the result
call_parse_count ==
    /\ npc = "shortened"
    /\ ~parse_count_raises(shortened)
    /\ parsed' = parse_count(shortened)
    /\ npc' = "parsed"
    /\ UNCHANGED <<number, shortened>>
    /\ UNCHANGED rendervars

NextNum ==
    \/ call_shorten_count
    \/ call_parse_count

SpecNum == InitNum /\ [][NextNum]_vars

\* ================================================================= claims
\* the data model's count encodings: the sentinel, an unsigned integer
\* literal, or "<number>k"
IsCountLiteral(s) ==
    \/ s = MinusOne
    \/ Len(s) > 0 /\ AllDigits(s)
    \/ /\ Len(s) >= 2
       /\ LowerChar(s[Len(s)]) = "k"
       /\ LET b == SubSeq(s, 1, Len(s) - 1)
              d == replace_with_empty(b, ".")
          IN  Len(d) > 0 /\ AllDigits(d) /\ Len(b) - Len(d) <= 1

WellFormed(rs) ==
    \A i \in 1..Len(rs) : IsCountLiteral(rs[i].stargazers_count) /\ IsCountLiteral(rs[i].forks)

IsBar(p) == p.part \in {"star_bar", "fork_bar"}

GraphRendered ==
    /\ pc = "done"
    /\ renderer = "graph"
    /\ Len(repos) > 0
    /\ WellFormed(repos)

\* C1: in the graph layout, for a non-empty sequence of well-formed records,
\* every star bar and every fork bar has a width w with 0 <= w <= 40.
C1_BarWidthBound ==
    GraphRendered =>
        \A k \in 1..Len(out) : IsBar(out[k]) => (0 <= out[k].blocks /\ out[k].blocks <= 40)

\* C9: in the graph layout a zero maximum is no fault: for well-formed
\* records the call does not raise, and when the maximum star count is 0
\* every bar has width 0; a record whose own parsed count is 0 (the sentinel
\* included) has a bar of width 0 for that field.
C9_ZeroMaximum ==
    GraphRendered =>
        /\ error = "none"
        /\ Cardinality({k \in 1..Len(out) : IsBar(out[k])}) = 2 * Len(repos)
        /\ (\A i \in 1..Len(repos) : parse_count(repos[i].stargazers_count) = 0)
              => \A k \in 1..Len(out) : IsBar(out[k]) => out[k].blocks = 0
        /\ \A k \in 1..Len(out) :
              /\ (out[k].part = "star_bar"
                  /\ parse_count(repos[out[k].rec].stargazers_count) = 0)
                    => out[k].blocks = 0
              /\ (out[k].part = "fork_bar"
                  /\ parse_count(repos[out[k].rec].forks) = 0)
                    => out[k].blocks = 0

\* a zero maximum with a non-zero fork count, and a zero count next to a
\* non-zero maximum, have both been rendered
C9_Witness ==
    /\ GraphRendered
    /\ error = "none"
    /\ Len(repos) = 2
    /\ repos[1].stargazers_count = <<"0">>
    /\ repos[1].forks = <<"2", "0">>
    /\ repos[2].stargazers_count = MinusOne
    /\ \A k \in 1..Len(out) : IsBar(out[k]) => out[k].blocks = 0

\* the frame a layout prints around no record at all
EmptyFrame(name) ==
    IF name = "table" THEN <<table_columns>>
    ELSE IF name = "list" THEN <<Part("rule", 0, <<>>, 0)>>
    ELSE <<>>

\* C10: rendering an empty record sequence completes without raising in
\* every layout, graph included, and emits only the layout's frame.
C10_EmptyRenders ==
    (pc = "done" /\ Len(repos) = 0 /\ layout \in {"list", "table", "grid", "graph"})
        => (error = "none" /\ out = EmptyFrame(layout))

\* the whole output of list_layout for the records rs
ListOutput(rs) ==
    Flatten([i \in 1..Len(rs) |-> render_repo(rs[i], i)]) \o <<Part("rule", 0, <<>>, 0)>>

Dispatched == pc \in {"render", "rendered", "raised", "done"}

\* C5: print_layout selects the table, grid or graph renderer exactly when
\* the layout name is exactly "table", "grid" or "graph"; every other name,
\* the empty default of print_results included, selects the list renderer,
\* which does not fail and emits what an explicit "list" call emits.
C5_Dispatch ==
    Dispatched =>
        /\ (renderer = "table") <=> (layout = "table")
        /\ (renderer = "grid") <=> (layout = "grid")
        /\ (renderer = "graph") <=> (layout = "graph")
        /\ layout \notin {"table", "grid", "graph"} =>
              /\ renderer = "list"
              /\ error = "none"
              /\ pc # "raised"
              /\ pc = "done" => out = ListOutput(repos)

\* an unknown name and the empty name have been rendered as a list
C5_Witness ==
    /\ pc = "done"
    /\ layout \in {"", "Graph"}
    /\ renderer = "list"
    /\ Len(repos) = 2
    /\ out = ListOutput(repos)

\* C6: with page true the pager context is entered before the first write
\* and exited exactly once on every exit path, a raising renderer included;
\* with page false no pager context is ever entered.
C6_PagerScoped ==
    /\ released <= acquired
    /\ acquired <= 1
    /\ ~page => (acquired = 0 /\ pager = "none")
    /\ (page /\ prints > 0) => acquired = 1
    /\ (page /\ pc \in {"dispatch", "render", "rendered", "raised"})
          => (pager = "open" /\ acquired = 1 /\ released = 0)
    /\ (page /\ pc = "done") => (pager = "closed" /\ acquired = 1 /\ released = 1)

\* a paged call whose renderer raised has released its pager
C6_Witness ==
    /\ pc = "done"
    /\ page
    /\ error = "ValueError"
    /\ acquired = 1
    /\ released = 1

\* a paged call that wrote several times under the open pager
C6_WitnessWrites ==
    /\ pc = "rendered"
    /\ page
    /\ prints = 3
    /\ pager = "open"

HasMalformedCount(rs) ==
    \E i \in 1..Len(rs) : \/ ~IsCountLiteral(rs[i].stargazers_count)
                          \/ ~IsCountLiteral(rs[i].forks)

\* C7 as stated: in every layout a record whose stargazers_count or forks is
\* no integer literal, no "<number>k" and not "-1" makes the render call fail
\* with a FormatError that propagates to the caller.
C7_FormatError ==
    (pc = "done" /\ HasMalformedCount(repos)) => error = "FormatError"

\* a count holding a character that no numeric literal has
Unconvertible(s) ==
    \E i \in 1..Len(s) : s[i] \notin (DigitChars \cup {"k", "K", ".", "-", "+"})

HasUnconvertible(rs) ==
    \E i \in 1..Len(rs) : \/ Unconvertible(rs[i].stargazers_count)
                          \/ Unconvertible(rs[i].forks)

\* the stats piece of record i shows the count s as given
ShowsCount(i, s) ==
    \E k \in 1..Len(out) :
        /\ out[k].part = "stats"
        /\ out[k].rec = i
        /\ \E a \in 0..Len(out[k].text) :
              a + Len(s) <= Len(out[k].text) /\ SubSeq(out[k].text, a + 1, a + Len(s)) = s

\* C7, amended: only the graph layout converts the counts.  There a record
\* with a count that int() / float() reject makes the call fail with the
\* conversion's ValueError before anything is printed, and the exception
\* reaches the caller; list, table and grid print such a count as given and
\* do not fail; a count that is no literal of the data model but converts
\* ("1k2") fails in no layout.
C7_GraphValueError ==
    pc = "done" =>
        /\ (renderer = "graph" /\ HasUnconvertible(repos))
              => (error = "ValueError" /\ prints = 0 /\ out = <<>>)
        /\ renderer \in {"list", "table", "grid"} =>
              /\ error = "none"
              /\ \A i \in 1..Len(repos) :
                    /\ repos[i].stargazers_count # MinusOne
                          => ShowsCount(i, repos[i].stargazers_count)
                    /\ repos[i].forks # MinusOne => ShowsCount(i, repos[i].forks)
        /\ (renderer = "graph" /\ Len(repos) > 0 /\ ~HasUnconvertible(repos))
              => error = "none"
        /\ error \in {"none", "ValueError"}

\* a graph call aborted by the second record's count, and nothing printed
C7_Witness ==
    /\ pc = "done"
    /\ renderer = "graph"
    /\ Len(repos) = 2
    /\ ~HasMalformedCount(<<repos[1]>>)
    /\ repos[2].forks = <<"a", "b">>
    /\ error = "ValueError"
    /\ prints = 0

\* the order of the sub-parts of one entry: name or title, stats, language
\* and date range, description, star bar, fork bar; 0 for the pieces between
SubPartRank(kind) ==
    CASE kind \in {"name", "title"} -> 1
      [] kind = "stats" -> 2
      [] kind \in {"language", "date_range"} -> 3
      [] kind = "description" -> 4
      [] kind = "star_bar" -> 5
      [] kind = "fork_bar" -> 6
      [] OTHER -> 0

\* the column order of the table layout: name, language, description, then
\* the stats cell (stats above date range)
TableRank(kind) ==
    CASE kind = "name" -> 1
      [] kind = "language" -> 2
      [] kind = "description" -> 3
      [] kind = "stats" -> 4
      [] kind = "date_range" -> 5
      [] OTHER -> 0

\* records come out in input order, one entry each, under their own names
EntriesInInputOrder ==
    /\ \A k, l \in 1..Len(out) :
          (k < l /\ out[k].rec # 0 /\ out[l].rec # 0) => out[k].rec <= out[l].rec
    /\ \A i \in 1..Len(repos) :
          /\ Cardinality({k \in 1..Len(out) :
                            out[k].rec = i /\ out[k].part \in {"name", "title"}}) = 1
          /\ \A k \in 1..Len(out) :
                /\ (out[k].rec = i /\ out[k].part = "name") => out[k].text = repos[i].name
                /\ (out[k].rec = i /\ out[k].part = "title")
                      => out[k].text = repos[i].full_name
                /\ (out[k].rec = i /\ out[k].part = "star_bar")
                      => out[k].text = <<" ">> \o repos[i].stargazers_count \o <<"\n">>
    /\ \A k \in 1..Len(out) : out[k].rec \in 0..Len(repos)

SubPartsOrdered(rank(_)) ==
    \A k, l \in 1..Len(out) :
        (k < l /\ out[k].rec # 0 /\ out[k].rec = out[l].rec
         /\ rank(out[k].part) # 0 /\ rank(out[l].part) # 0)
            => rank(out[k].part) <= rank(out[l].part)

\* the list layout ends with its one closing rule
OneClosingRule ==
    renderer = "list" =>
        /\ Len(out) > 0
        /\ out[Len(out)] = Part("rule", 0, <<>>, 0)
        /\ Cardinality({k \in 1..Len(out) : out[k].part = "rule" /\ out[k].rec = 0}) = 1

RenderCompleted == pc = "done" /\ error = "none"

\* C8 as stated: every renderer emits the records in input order, one entry
\* per record, and in every layout an entry's sub-parts come as name/title,
\* stats, language/date-range, description (graph: star bar before fork
\* bar); the list layout ends with exactly one closing rule.
C8_FixedOrder ==
    RenderCompleted =>
        /\ EntriesInInputOrder
        /\ SubPartsOrdered(SubPartRank)
        /\ OneClosingRule

\* C8, amended: as stated for the list, grid and graph layouts; in the table
\* layout an entry's sub-parts come in column order: name, language,
\* description, stats with the date range below it.
C8_LayoutOrder ==
    RenderCompleted =>
        /\ EntriesInInputOrder
        /\ IF renderer = "table" THEN SubPartsOrdered(TableRank)
           ELSE SubPartsOrdered(SubPartRank)
        /\ OneClosingRule

\* two different records rendered as a table, in their order and with the
\* stats cell last
C8_Witness ==
    /\ RenderCompleted
    /\ renderer = "table"
    /\ Len(repos) = 2
    /\ repos[1].name # repos[2].name
    /\ Len(out) = 11
    /\ out[5].part = "stats"
    /\ out[7].rec = 2

\* ------------------------------------------------- claims on shorten_count
Shortened == npc \in {"shortened", "parsed"}

\* r / 1000 with exactly one decimal digit, then "k"
OneDecimalK(r) ==
    NatStr(r \div 1000) \o <<".", Digits[((r \div 100) % 10) + 1], "k">>

\* C2: for n >= 1000 with r = ceiling(round(n / 100, 1)) * 100 a multiple of
\* 1000, shorten_count(n) is all the digits of r / 1000 followed by "k".
C2_WholeThousands ==
    (Shortened /\ number >= 1000 /\ new_number_of(number) % 1000 = 0)
        => shortened = NatStr(new_number_of(number) \div 1000) \o <<"k">>

\* number rounded to the nearest multiple of 100
NearestHundred(n) == ((n + 50) \div 100) * 100

\* C3 as stated: for n >= 1000 whose r, n rounded to the nearest multiple of
\* 100, is no multiple of 1000, shorten_count(n) is r / 1000 with one decimal
\* digit followed by "k"; shorten_count(1234) = "1.2k".
C3_NearestHundred ==
    (Shortened /\ number >= 1000 /\ NearestHundred(number) % 1000 # 0)
        => shortened = OneDecimalK(NearestHundred(number))

\* C3, amended: r is ceiling(round(n / 100, 1)) * 100, that is n rounded up
\* to the next multiple of 100 unless n is less than 5 above a multiple of
\* 100 (exactly 5 above: either way); when r is no multiple of 1000,
\* shorten_count(n) is r / 1000 with one decimal digit followed by "k";
\* shorten_count(1234) = "1.3k".
C3_CeilingHundred ==
    (Shortened /\ number >= 1000) =>
        LET r    == new_number_of(number)
            down == (number \div 100) * 100
        IN  /\ number % 100 < 5 => r = down
            /\ number % 100 > 5 => r = down + 100
            /\ r \in {down, down + 100}
            /\ r % 1000 # 0 => shortened = OneDecimalK(r)
            /\ number = 1234 => shortened = <<"1", ".", "3", "k">>

\* 1234 has been abbreviated, and a number 5 above a multiple of 100
C3_Witness ==
    /\ Shortened
    /\ number = 1234
    /\ shortened = <<"1", ".", "3", "k">>

\* C4: parse_count(shorten_count(n)) is within 50 of n for n >= 1000 and is
\* n for n in 0..999.
C4_RoundTrip ==
    npc = "parsed" =>
        /\ number >= 1000 => (parsed - number <= 50 /\ number - parsed <= 50)
        /\ number < 1000 => parsed = number

====
